---------------------------- MODULE Spec2Model ----------------------------
(***************************************************************************)
(* Model of the consumers of the loaded Page collection:                   *)
(*   - findIndexablePages  (src/search/scripts/scrape/lib/                 *)
(*     find-indexable-pages.ts), the search scraper's page filter;         *)
(*   - the "pages module" test suite (src/unnamed/part_001), whose tests   *)
(*     are the cross-file checks run over the loaded collection.           *)
(*                                                                         *)
(* Text is a sequence of one-character strings ("a/b.md" is                *)
(* <<"a","/","b",".","m","d">>), except in the redirect paths, where a     *)
(* version identifier and a path segment are single tokens.                *)
(***************************************************************************)
EXTENDS Integers, Sequences, FiniteSets, TLC

VARIABLES
    corpus,             \* the content tree: what a load of the pages yields
    scrapePc,           \* findIndexablePages: "idle" | "awaiting" | "returned"
    scrapeLoad,         \* its loadPages() promise: "none" | "pending" | "resolved"
    match,              \* its parameter, after the default is applied
    allPages,           \* its const allPages
    indexablePages,     \* its const indexablePages (the returned array)
    consoleLog,         \* what it has logged
    suiteLoad,          \* the suite's loadPages() promise in beforeAll
    pages,              \* the suite's `let pages`
    verdict,            \* per test: "pending" | "pass" | "fail"
    message,            \* per test: the failure message's data
    redirectToFiles,    \* redirect test: Map from redirect path to Set of files
    duplicates,         \* redirect test: const duplicates
    versionedRedirects, \* redirect test: the array of {path, file}
    liquidIdx,          \* Liquid test: number of pages the for..of loop has visited
    liquidParsed,       \* Liquid test: the files handed to liquid.parse
    liquidErrors        \* Liquid test: const liquidErrors

scrapeVars == <<scrapePc, scrapeLoad, match, allPages, indexablePages, consoleLog>>
suiteVars == <<suiteLoad, pages, verdict, message, redirectToFiles, duplicates,
               versionedRedirects, liquidIdx, liquidParsed, liquidErrors>>
vars == <<corpus, scrapeVars, suiteVars>>

\* ------------------------------------------------------------------ bounds

\* Each specification bounds the number of pages of its content tree.
MaxScrapePages == 2

\* ------------------------------------------------------------ optional values

\* A JavaScript value that may be undefined.
None == [some |-> FALSE]
Some(x) == [some |-> TRUE, val |-> x]

\* ------------------------------------------------------------------- text

IndexMd == <<"i", "n", "d", "e", "x", ".", "m", "d">>
DotMd == <<".", "m", "d">>

\* s.startsWith(m, i - 1)
MatchesAt(s, m, i) ==
    /\ i + Len(m) - 1 <= Len(s)
    /\ \A k \in 1..Len(m) : s[i + k - 1] = m[k]

\* String.prototype.includes
Includes(s, m) == \E i \in 1..(Len(s) + 1) : MatchesAt(s, m, i)

\* Array.prototype.filter: the elements satisfying Keep, in their order.
Filter(s, Keep(_)) == SelectSeq(s, Keep)

\* ------------------------------------------------------------------ pages

\* A Page with every field the consumers read; the specifications below vary
\* the fields their consumer reads and leave the others as here.
DefaultPage ==
    [fullPath |-> 0,
     relativePath |-> <<"a", ".", "m", "d">>,
     languageCode |-> "en",
     hidden |-> FALSE,
     parentProduct |-> None,
     permalinks |-> Some(<<"/en/a">>),
     redirect_from |-> None,
     applicableVersions |-> <<>>,
     title |-> <<"a">>,
     shortTitle |-> <<>>,
     allowTitleToDifferFromFilename |-> FALSE,
     frontmatterErrors |-> None,
     raw |-> <<>>]

\* loadPages(): the complete collection, in the content tree's order.
LoadPages == corpus

\* ----------------------------------------------------- findIndexablePages

\* exclude hidden pages
NotHidden(page) == ~page.hidden

\* exclude pages that are part of WIP or hidden products
ProductIndexable(page) ==
    \/ ~page.parentProduct.some
    \/ ~page.parentProduct.val.wip
    \/ page.parentProduct.val.hidden

\* exclude absolute home page (e.g. /en or /ja)
NotHomePage(page) == page.relativePath # IndexMd

\* The match filter with its negation dropped (`match || ...`).
MatchesPathNoNegation(page, m) == m # <<>> \/ Includes(page.relativePath, m)

\* the match filter
MatchesPath(page, m) == m = <<>> \/ Includes(page.relativePath, m)

\* The chain of filters followed by an in-place reverse of its result.
IndexablePagesReversed(all, m) ==
    LET Keep(p) == NotHidden(p) /\ ProductIndexable(p) /\ NotHomePage(p)
                   /\ MatchesPath(p, m)
        kept == Filter(all, Keep)
    IN [i \in 1..Len(kept) |-> kept[Len(kept) + 1 - i]]

\* the chain of four filters
IndexablePages(all, m) ==
    LET Keep1(p) == NotHidden(p)
        Keep2(p) == ProductIndexable(p)
        Keep3(p) == NotHomePage(p)
        Keep4(p) == MatchesPath(p, m)
    IN Filter(Filter(Filter(Filter(all, Keep1), Keep2), Keep3), Keep4)

\* The awaited loadPages() promise has resolved.
ScrapeAwaited == scrapeLoad = "resolved"

\* findIndexablePages(arg) is called: the default is applied to the parameter
\* and loadPages() is called and awaited.
ScrapeCall(arg) ==
    /\ scrapePc = "idle"
    /\ match' = IF arg.some THEN arg.val ELSE <<>>
    /\ scrapeLoad' = "pending"
    /\ scrapePc' = "awaiting"
    /\ UNCHANGED <<corpus, allPages, indexablePages, consoleLog, suiteVars>>

\* The loader finishes: the promise resolves.
ScrapeLoadResolve ==
    /\ scrapeLoad = "pending"
    /\ scrapeLoad' = "resolved"
    /\ UNCHANGED <<corpus, scrapePc, match, allPages, indexablePages, consoleLog,
                   suiteVars>>

\* The function resumes after the await and runs to its return.
ScrapeResume ==
    /\ scrapePc = "awaiting"
    /\ ScrapeAwaited
    /\ allPages' = LoadPages
    /\ indexablePages' = IndexablePages(LoadPages, match)
    /\ consoleLog' = <<Len(LoadPages), Len(IndexablePages(LoadPages, match))>>
    /\ scrapePc' = "returned"
    /\ UNCHANGED <<corpus, scrapeLoad, match, suiteVars>>

\* ------------------------------------------------- the pages test suite

\* Array.prototype.map
Map(s, F(_)) == [i \in 1..Len(s) |-> F(s[i])]

\* The concatenation of the sequences of a sequence.
RECURSIVE Flatten(_)
Flatten(ss) == IF ss = <<>> THEN <<>> ELSE Head(ss) \o Flatten(Tail(ss))

\* The beforeAll hook has completed without awaiting its load.
BeforeAllNotAwaited == suiteLoad \in {"pending", "resolved"}

\* The beforeAll hook has completed: its awaited loadPages() has resolved and
\* `pages` is assigned. The runner starts no test before that.
BeforeAllDone == suiteLoad = "resolved"

\* beforeAll starts: loadPages() is called and awaited.
BeforeAll ==
    /\ suiteLoad = "none"
    /\ suiteLoad' = "pending"
    /\ UNCHANGED <<corpus, scrapeVars, pages, verdict, message, redirectToFiles,
                   duplicates, versionedRedirects, liquidIdx, liquidParsed,
                   liquidErrors>>

\* The load resolves and beforeAll assigns `pages`.
SuiteLoadResolve ==
    /\ suiteLoad = "pending"
    /\ suiteLoad' = "resolved"
    /\ pages' = LoadPages
    /\ UNCHANGED <<corpus, scrapeVars, verdict, message, redirectToFiles,
                   duplicates, versionedRedirects, liquidIdx, liquidParsed,
                   liquidErrors>>

\* A test may run: the hook is done and the test has not run yet.
MayRun(t) == BeforeAllDone /\ verdict[t] = "pending"

\* expect(n, msg).toBe(0) ends test t: the verdict, and the message built.
Expect0(t, n, msg) ==
    /\ verdict' = [verdict EXCEPT ![t] = IF n = 0 THEN "pass" ELSE "fail"]
    /\ message' = [message EXCEPT ![t] = msg]

\* test 'yields a non-empty array of Page objects'
MinPages == 100

LengthTest ==
    /\ MayRun("length")
    /\ verdict' = [verdict EXCEPT
                     !["length"] = IF Len(pages) > MinPages THEN "pass" ELSE "fail"]
    /\ UNCHANGED <<corpus, scrapeVars, suiteLoad, pages, message, redirectToFiles,
                   duplicates, versionedRedirects, liquidIdx, liquidParsed,
                   liquidErrors>>

\* Object.keys(libLanguages): the registered language codes.
languageCodes == {"en", "ja", "es"}

\* test 'every page has a `languageCode`': expect(pages.every(..)).toBe(true),
\* with no message.
LanguageTest ==
    /\ MayRun("languageCode")
    /\ verdict' = [verdict EXCEPT
                     !["languageCode"] =
                        IF \A i \in 1..Len(pages) : pages[i].languageCode \in languageCodes
                        THEN "pass" ELSE "fail"]
    /\ UNCHANGED <<corpus, scrapeVars, suiteLoad, pages, message, redirectToFiles,
                   duplicates, versionedRedirects, liquidIdx, liquidParsed,
                   liquidErrors>>

\* !Array.isArray(page.permalinks) || page.permalinks.length === 0
BrokenPermalinks(page) == ~page.permalinks.some \/ Len(page.permalinks.val) = 0

\* The pages the permalinks test reports when it stops at the first broken one.
BrokenPagesFirstOnly(all) ==
    LET broken == Filter(all, BrokenPermalinks)
    IN IF broken = <<>> THEN <<>> ELSE <<Head(broken)>>

\* const brokenPages
BrokenPages(all) == Filter(all, BrokenPermalinks)

\* test 'every page has a non-empty `permalinks` array'
PermalinksTest ==
    /\ MayRun("permalinks")
    /\ LET FullPath(page) == page.fullPath
       IN Expect0("permalinks", Len(BrokenPages(pages)),
                  Map(BrokenPages(pages), FullPath))
    /\ UNCHANGED <<corpus, scrapeVars, suiteLoad, pages, redirectToFiles,
                   duplicates, versionedRedirects, liquidIdx, liquidParsed,
                   liquidErrors>>

\* ---- redirect paths: sequences of tokens, "/" or a whole segment

FPT == "free-pro-team@latest"
GHES38 == "enterprise-server@3.8"
GHES39 == "enterprise-server@3.9"

\* path.posix.normalize, for paths without "." and ".." segments: runs of "/"
\* collapse to one.
RECURSIVE Normalize(_)
Normalize(p) ==
    IF Len(p) < 2 THEN p
    ELSE IF p[1] = "/" /\ p[2] = "/" THEN Normalize(Tail(p))
    ELSE <<p[1]>> \o Normalize(Tail(p))

\* path.posix.join('/', version, redirect): the non-empty arguments joined
\* with "/", then normalized.
PosixJoin(version, redirect) ==
    Normalize(<<"/">> \o <<"/">> \o <<version>>
              \o (IF redirect = <<>> THEN <<>> ELSE <<"/">> \o redirect))

\* String.prototype.replace(`/${nonEnterpriseDefaultVersion}`, ''): the first
\* occurrence is removed.
RECURSIVE RemoveFPTFromPath(_)
RemoveFPTFromPath(p) ==
    IF Len(p) < 2 THEN p
    ELSE IF p[1] = "/" /\ p[2] = FPT THEN SubSeq(p, 3, Len(p))
    ELSE <<p[1]>> \o RemoveFPTFromPath(Tail(p))

\* const versioned
Versioned(version, redirect) == RemoveFPTFromPath(PosixJoin(version, redirect))

\* chain(pages).filter(['languageCode', 'en']).filter('redirect_from')
EnglishPages(all) ==
    LET IsEnglish(page) == page.languageCode = "en"
        HasRedirects(page) == page.redirect_from.some
    IN Filter(Filter(all, IsEnglish), HasRedirects)

\* The expansion with the version loop stopped after the first version.
ExpandPageFirstVersion(page) ==
    LET R == page.redirect_from.val
        nV == IF page.applicableVersions = <<>> THEN 0 ELSE 1
    IN [k \in 1..(Len(R) * nV) |->
          [path |-> Versioned(page.applicableVersions[1], R[k]),
           file |-> page.fullPath]]

\* The {path, file} pairs one page pushes: its redirects in order and, for
\* each, its versions in order.
ExpandPage(page) ==
    LET R == page.redirect_from.val
        V == page.applicableVersions
    IN [k \in 1..(Len(R) * Len(V)) |->
          [path |-> Versioned(V[((k - 1) % Len(V)) + 1], R[((k - 1) \div Len(V)) + 1]),
           file |-> page.fullPath]]

\* const versionedRedirects, after the forEach over englishPages
VersionedRedirects(english) == Flatten(Map(english, ExpandPage))

\* A list that takes every file, also one it holds already.
SetAddNoDedupe(files, file) == Append(files, file)

\* Set.prototype.add: a Set keeps each value once, in insertion order.
SetAdd(files, file) ==
    IF \E i \in 1..Len(files) : files[i] = file THEN files ELSE Append(files, file)

\* redirectToFiles.has(path)
MapHas(map, path) == \E i \in 1..Len(map) : map[i].path = path

\* redirectToFiles.get(path); a Map keeps its keys in insertion order.
MapGet(map, path) == (CHOOSE i \in 1..Len(map) : map[i].path = path)

\* One pass of the innermost loop on the Map.
MapAddFile(map, entry) ==
    LET m1 == IF MapHas(map, entry.path) THEN map
              ELSE Append(map, [path |-> entry.path, files |-> <<>>])
        at == MapGet(m1, entry.path)
    IN [m1 EXCEPT ![at].files = SetAdd(m1[at].files, entry.file)]

\* const redirectToFiles, after the forEach over englishPages
RECURSIVE RedirectToFiles(_, _)
RedirectToFiles(map, entries) ==
    IF entries = <<>> THEN map
    ELSE RedirectToFiles(MapAddFile(map, Head(entries)), Tail(entries))

\* The duplicates taken with the size test off by one (files.size > 2).
DuplicatesMoreThanTwo(map, entries) ==
    LET MoreThanTwo(e) == Len(e.files) > 2
    IN Filter(map, MoreThanTwo)

\* Only consider as duplicate if more than one unique file defines the same
\* redirect: the Map's entries with files.size > 1.
Duplicates(map, entries) ==
    LET MoreThanOne(e) == Len(e.files) > 1
    IN Filter(map, MoreThanOne)

\* test 'redirect_from routes are unique across English pages'
RedirectTest ==
    /\ MayRun("redirect_from")
    /\ LET entries == VersionedRedirects(EnglishPages(pages))
           map == RedirectToFiles(<<>>, entries)
           dups == Duplicates(map, entries)
           Path(e) == e.path
       IN /\ versionedRedirects' = entries
          /\ redirectToFiles' = map
          /\ duplicates' = Map(dups, Path)
          /\ Expect0("redirect_from", Len(dups), dups)
    /\ UNCHANGED <<corpus, scrapeVars, suiteLoad, pages, liquidIdx, liquidParsed,
                   liquidErrors>>

\* ---- the filename test

\* html-entities' decode, for the entity &amp;
RECURSIVE Decode(_)
Decode(s) ==
    IF s = <<>> THEN <<>>
    ELSE IF MatchesAt(s, <<"&", "a", "m", "p", ";">>, 1)
         THEN <<"&">> \o Decode(SubSeq(s, 6, Len(s)))
         ELSE <<Head(s)>> \o Decode(Tail(s))

\* String.prototype.toLowerCase, on the letters the titles use
LowerCase(c) ==
    CASE c = "A" -> "a" [] c = "B" -> "b" [] c = "F" -> "f" [] OTHER -> c

\* The characters github-slugger's regex removes, among those the titles use.
SlugRemoved == {"&", ";", "!", "?", ".", ",", "/"}

\* github-slugger's slug function: lower case, the regex's characters
\* removed, each space replaced by "-".
SlugOf(value) ==
    LET Kept(c) == c \notin SlugRemoved
        Dash(c) == IF c = " " THEN "-" ELSE c
    IN Map(Filter(Map(value, LowerCase), Kept), Dash)

\* The decimal digits of n.
RECURSIVE Decimal(_)
Decimal(n) ==
    LET digit == <<"0", "1", "2", "3", "4", "5", "6", "7", "8", "9">>[(n % 10) + 1]
    IN IF n < 10 THEN <<digit>> ELSE Decimal(n \div 10) \o <<digit>>

\* GithubSlugger.slug's loop: while the result has occurred, count the
\* original once more and append the count; then record the result.
RECURSIVE SluggerLoop(_, _, _)
SluggerLoop(occurrences, original, result) ==
    IF result \notin DOMAIN occurrences
    THEN [slug |-> result, occurrences |-> (result :> 0) @@ occurrences]
    ELSE LET n == occurrences[original] + 1
         IN SluggerLoop([occurrences EXCEPT ![original] = n], original,
                        original \o <<"-">> \o Decimal(n))

\* slugger.slug(value) on a slugger whose occurrences are given: the slug it
\* returns and the occurrences it leaves.
SluggerSlug(occurrences, value) ==
    SluggerLoop(occurrences, SlugOf(value), SlugOf(value))

\* slugger.reset()
NoOccurrences == <<>>

\* The position of the last "/" of p, or 0.
LastSlash(p) ==
    LET at == {i \in 1..Len(p) : p[i] = "/"}
    IN IF at = {} THEN 0 ELSE CHOOSE i \in at : \A j \in at : j <= i

\* path.basename(p): what follows the last "/"
BaseName(p) == SubSeq(p, LastSlash(p) + 1, Len(p))

\* path.basename(p, '.md'): the extension is cut unless it is the whole name
BaseNameNoMd(p) ==
    LET base == BaseName(p)
    IN IF Len(base) > Len(DotMd) /\ MatchesAt(base, DotMd, Len(base) - Len(DotMd) + 1)
       THEN SubSeq(base, 1, Len(base) - Len(DotMd))
       ELSE base

\* The filter's callback: the slugger is reset, then the title and, on the
\* same slugger, the shortTitle are slugged.
NonMatch(page) ==
    LET first == SluggerSlug(NoOccurrences, Decode(page.title))
        second == SluggerSlug(first.occurrences, Decode(page.shortTitle))
    IN /\ page.languageCode = "en"                   \* only check English
       /\ ~Includes(page.relativePath, IndexMd)      \* ignore TOCs
       /\ ~page.allowTitleToDifferFromFilename       \* ignore docs with override
       /\ first.slug # BaseNameNoMd(page.relativePath)
       /\ second.slug # BaseNameNoMd(page.relativePath)

\* test 'every English page has a filename that matches its slugified title
\* or shortTitle'
FilenameTest ==
    /\ MayRun("filename")
    /\ LET Readable(page) ==
              [file |-> BaseName(page.relativePath), title |-> page.title,
               path |-> page.fullPath]
           nonMatches == Map(Filter(pages, NonMatch), Readable)
       IN Expect0("filename", Len(nonMatches), nonMatches)
    /\ UNCHANGED <<corpus, scrapeVars, suiteLoad, pages, redirectToFiles,
                   duplicates, versionedRedirects, liquidIdx, liquidParsed,
                   liquidErrors>>

\* ---- the frontmatter test

\* test 'every page has valid frontmatter'
FrontmatterTest ==
    /\ MayRun("frontmatter")
    /\ LET Errors(page) == page.frontmatterErrors
           Defined(e) == e.some
           Value(e) == e.val
           frontmatterErrors == Flatten(Map(Filter(Map(pages, Errors), Defined), Value))
       IN Expect0("frontmatter", Len(frontmatterErrors), frontmatterErrors)
    /\ UNCHANGED <<corpus, scrapeVars, suiteLoad, pages, redirectToFiles,
                   duplicates, versionedRedirects, liquidIdx, liquidParsed,
                   liquidErrors>>

\* ---- the Liquid test

\* patterns.hasLiquid: the text holds "{{" or "{%"
HasLiquid(markdown) ==
    \E i \in 1..(Len(markdown) - 1) :
        markdown[i] = "{" /\ markdown[i + 1] \in {"{", "%"}

\* liquid.parse(markdown): None when the text parses, else the message of
\* the error thrown: an output "{{" without "}}" after it, a tag "{%" without
\* "%}" after it, the first of them in the text.
RECURSIVE LiquidParseError(_)
LiquidParseError(markdown) ==
    LET Closed(close, from) ==
            \E j \in from..(Len(markdown) - 1) :
                markdown[j] = close /\ markdown[j + 1] = "}"
    IN IF Len(markdown) < 2 THEN None
       ELSE IF markdown[1] = "{" /\ markdown[2] = "{"
            THEN IF Closed("}", 3) THEN LiquidParseError(SubSeq(markdown, 3, Len(markdown)))
                 ELSE Some("output not closed")
       ELSE IF markdown[1] = "{" /\ markdown[2] = "%"
            THEN IF Closed("%", 3) THEN LiquidParseError(SubSeq(markdown, 3, Len(markdown)))
                 ELSE Some("tag not closed")
       ELSE LiquidParseError(Tail(markdown))

\* A loop that an error ends (the catch outside the for).
LiquidLoopUntilError == liquidIdx < Len(pages) /\ liquidErrors = <<>>

\* for (const page of pages): a page is left to visit
LiquidLoopContinues == liquidIdx < Len(pages)

\* One pass of the loop's body on the next page.
LiquidStep ==
    /\ MayRun("liquid")
    /\ LiquidLoopContinues
    /\ LET page == pages[liquidIdx + 1]
           markdown == page.raw
       IN IF ~HasLiquid(markdown)
          THEN UNCHANGED <<liquidParsed, liquidErrors>>           \* continue
          ELSE /\ liquidParsed' = Append(liquidParsed, page.fullPath)
               /\ liquidErrors' =
                    IF LiquidParseError(markdown).some
                    THEN Append(liquidErrors,
                                [filename |-> page.fullPath,
                                 error |-> LiquidParseError(markdown).val])
                    ELSE liquidErrors
    /\ liquidIdx' = liquidIdx + 1
    /\ UNCHANGED <<corpus, scrapeVars, suiteLoad, pages, verdict, message,
                   redirectToFiles, duplicates, versionedRedirects>>

\* The loop is over: expect(liquidErrors.length, failureMessage).toBe(0)
LiquidFinish ==
    /\ MayRun("liquid")
    /\ ~LiquidLoopContinues
    /\ Expect0("liquid", Len(liquidErrors), liquidErrors)
    /\ UNCHANGED <<corpus, scrapeVars, suiteLoad, pages, redirectToFiles,
                   duplicates, versionedRedirects, liquidIdx, liquidParsed,
                   liquidErrors>>

\* --------------------------------------------------------- initial states

TestNames ==
    {"length", "languageCode", "permalinks", "redirect_from", "filename",
     "frontmatter", "liquid"}

\* Everything but the content tree, as it is before any consumer has run.
Fresh ==
    /\ scrapePc = "idle"
    /\ scrapeLoad = "none"
    /\ match = <<>>
    /\ allPages = <<>>
    /\ indexablePages = <<>>
    /\ consoleLog = <<>>
    /\ suiteLoad = "none"
    /\ pages = <<>>
    /\ verdict = [t \in TestNames |-> "pending"]
    /\ message = [t \in TestNames |-> <<>>]
    /\ redirectToFiles = <<>>
    /\ duplicates = <<>>
    /\ versionedRedirects = <<>>
    /\ liquidIdx = 0
    /\ liquidParsed = <<>>
    /\ liquidErrors = <<>>

\* The content trees of up to max pages whose pages have the shapes of Shapes
\* (records of some of a Page's fields); page i is file number i.
Corpora(Shapes, max) ==
    UNION {{[i \in 1..n |-> [k \in DOMAIN DefaultPage |->
                                IF k = "fullPath" THEN i
                                ELSE IF k \in DOMAIN f[i] THEN f[i][k]
                                ELSE DefaultPage[k]]] :
              f \in [1..n -> Shapes]} : n \in 0..max}

\* -------------------------------------------- specification: the scraper

ScrapePaths ==
    {IndexMd,
     <<"a", "/">> \o IndexMd,
     <<"a", "/", "b", ".", "m", "d">>}

Products ==
    {None} \cup {Some([wip |-> w, hidden |-> h]) : w \in BOOLEAN, h \in BOOLEAN}

ScrapeShapes ==
    [hidden : BOOLEAN, parentProduct : Products, relativePath : ScrapePaths]

\* The match arguments: omitted, empty, and three strings.
ScrapeArgs ==
    {None, Some(<<>>), Some(<<"a", "/">>), Some(IndexMd), Some(<<"z">>)}

InitScrape == corpus \in Corpora(ScrapeShapes, MaxScrapePages) /\ Fresh

NextScrape ==
    \/ \E arg \in ScrapeArgs : ScrapeCall(arg)
    \/ ScrapeLoadResolve
    \/ ScrapeResume

SpecScrape == InitScrape /\ [][NextScrape]_vars

\* ------------------------------------- specification: the redirect test

MaxRedirectPages == 2

DUP == <<"/", "dup">>

RedirectLists ==
    {None,
     Some(<<DUP>>),
     Some(<<DUP, <<"dup">>>>),
     Some(<<DUP, <<"/", GHES38, "/", "dup">>>>),
     Some(<<<<"/", "old-path">>>>)}

VersionLists == {<<FPT>>, <<GHES38>>, <<GHES38, GHES39>>, <<FPT, GHES38>>}

RedirectShapes ==
    [languageCode : {"en"}, redirect_from : RedirectLists,
     applicableVersions : VersionLists]
    \cup [languageCode : {"ja"}, redirect_from : {Some(<<DUP>>)},
          applicableVersions : {<<GHES38>>}]

InitRedirect == corpus \in Corpora(RedirectShapes, MaxRedirectPages) /\ Fresh

NextRedirect ==
    \/ BeforeAll
    \/ SuiteLoadResolve
    \/ RedirectTest

SpecRedirect == InitRedirect /\ [][NextRedirect]_vars

\* ------------------------- specification: the three cross-file checks

MaxCheckPages == 3

CheckShapes ==
    [languageCode : {"en", "xx"},
     permalinks : {None, Some(<<>>), Some(<<"/en/a">>)},
     redirect_from : {None, Some(<<DUP>>)},
     applicableVersions : {<<GHES38>>}]

InitChecks == corpus \in Corpora(CheckShapes, MaxCheckPages) /\ Fresh

NextChecks ==
    \/ BeforeAll
    \/ SuiteLoadResolve
    \/ LanguageTest
    \/ PermalinksTest
    \/ RedirectTest

SpecChecks == InitChecks /\ [][NextChecks]_vars

\* ------------------------------------- specification: the filename test

MaxFilenamePages == 2

Foo == <<"F", "o", "o">>

FilenameShapes ==
    [languageCode : {"en", "ja"},
     relativePath : {<<"f", "o", "o">> \o DotMd,
                     <<"f", "o", "o", "-", "1">> \o DotMd,
                     <<"d", "/", "a", "-", "-", "b">> \o DotMd,
                     <<"d", "/">> \o IndexMd},
     title : {Foo, <<"A", " ", "&", "a", "m", "p", ";", " ", "b">>},
     shortTitle : {<<>>, Foo},
     allowTitleToDifferFromFilename : BOOLEAN]

InitFilename == corpus \in Corpora(FilenameShapes, MaxFilenamePages) /\ Fresh

NextFilename ==
    \/ BeforeAll
    \/ SuiteLoadResolve
    \/ FilenameTest

SpecFilename == InitFilename /\ [][NextFilename]_vars

\* --------------------------------------- specification: the Liquid test

MaxLiquidPages == 3

LiquidShapes ==
    [raw : {<<"t">>,
            <<"{", "x", "}">>,
            <<"{", "{", "x", "}", "}">>,
            <<"{", "{", "x">>,
            <<"{", "%", "t", "%", "}">>,
            <<"{", "%", "t", "}">>}]

InitLiquid == corpus \in Corpora(LiquidShapes, MaxLiquidPages) /\ Fresh

NextLiquid ==
    \/ BeforeAll
    \/ SuiteLoadResolve
    \/ LiquidStep
    \/ LiquidFinish

SpecLiquid == InitLiquid /\ [][NextLiquid]_vars

\* ------------------------- specification: the suite beside the scraper

MaxPages == 2

AllShapes ==
    {[hidden |-> FALSE, raw |-> <<"{", "{", "x">>,
      redirect_from |-> Some(<<DUP>>), applicableVersions |-> <<GHES38>>,
      frontmatterErrors |-> None],
     [hidden |-> TRUE, raw |-> <<"t">>,
      redirect_from |-> None, applicableVersions |-> <<FPT>>,
      frontmatterErrors |-> Some(<<[filepath |-> "a.md", message |-> "bad"]>>)]}

Init == corpus \in Corpora(AllShapes, MaxPages) /\ Fresh

Next ==
    \/ BeforeAll
    \/ SuiteLoadResolve
    \/ LengthTest
    \/ LanguageTest
    \/ PermalinksTest
    \/ RedirectTest
    \/ FilenameTest
    \/ FrontmatterTest
    \/ LiquidStep
    \/ LiquidFinish
    \/ \E arg \in {None, Some(<<"a">>)} : ScrapeCall(arg)
    \/ ScrapeLoadResolve
    \/ ScrapeResume

Spec == Init /\ [][Next]_vars

\* C1: no page returned by findIndexablePages has a parentProduct flagged wip,
\* and none has a parentProduct flagged hidden.
C1_NoWipOrHiddenProduct ==
    scrapePc = "returned" =>
        \A i \in 1..Len(indexablePages) :
            indexablePages[i].parentProduct.some =>
                /\ ~indexablePages[i].parentProduct.val.wip
                /\ ~indexablePages[i].parentProduct.val.hidden

\* C2: every page returned by findIndexablePages(match) is not hidden, is not
\* the bare index.md, and has a relativePath containing match when match is
\* not empty; with match omitted or empty, every page that passes the other
\* three filters is returned.
C2_HiddenIndexMatch ==
    scrapePc = "returned" =>
        /\ \A i \in 1..Len(indexablePages) :
              /\ indexablePages[i].hidden = FALSE
              /\ indexablePages[i].relativePath # IndexMd
              /\ match # <<>> =>
                    \E k \in 1..(Len(indexablePages[i].relativePath) - Len(match) + 1) :
                        SubSeq(indexablePages[i].relativePath, k, k + Len(match) - 1)
                            = match
        /\ match = <<>> =>
              \A j \in 1..Len(allPages) :
                  (/\ NotHidden(allPages[j])
                   /\ ProductIndexable(allPages[j])
                   /\ NotHomePage(allPages[j]))
                  => \E i \in 1..Len(indexablePages) : indexablePages[i] = allPages[j]

\* A call with the match "a/" on two visible pages without a product returned
\* a/b.md and dropped index.md.
C2_Witness ==
    /\ scrapePc = "returned"
    /\ match = <<"a", "/">>
    /\ Len(indexablePages) = 1
    /\ Len(allPages) = 2
    /\ \E j \in 1..2 : /\ allPages[j].relativePath = <<"a", "/", "b", ".", "m", "d">>
                        /\ ~allPages[j].hidden
                        /\ allPages[j].parentProduct = None
    /\ \E j \in 1..2 : /\ allPages[j].relativePath = <<"i", "n", "d", "e", "x", ".", "m", "d">>
                        /\ ~allPages[j].hidden
                        /\ allPages[j].parentProduct = None

\* C3: the step in which findIndexablePages filters leaves the loaded
\* collection as it was, and its result is an order-preserving subsequence of
\* it: each returned page is the collection's page of that file, and the
\* files' positions strictly increase.
C3_NoMutationSubsequence ==
    [][scrapePc' = "returned" =>
          /\ corpus' = corpus
          /\ allPages' = corpus
          /\ Len(indexablePages') <= Len(corpus)
          /\ \A i \in 1..Len(indexablePages') :
                /\ indexablePages'[i].fullPath \in 1..Len(corpus)
                /\ indexablePages'[i] = corpus[indexablePages'[i].fullPath]
                /\ i > 1 => indexablePages'[i - 1].fullPath < indexablePages'[i].fullPath
      ]_vars

\* A call on a collection of two pages dropped the first and returned the second.
C3_Witness ==
    /\ scrapePc = "returned"
    /\ Len(corpus) = 2
    /\ Len(indexablePages) = 1
    /\ indexablePages[1].fullPath = 2

\* ---- what the redirect claims speak of

\* The redirect test has run.
RedirectRan == verdict["redirect_from"] # "pending"

\* Page i of the suite's collection is an English page with redirects.
IsEnglishSource(i) == pages[i].languageCode = "en" /\ pages[i].redirect_from.some

\* A redirect entry with its leading "/" and, before it, the version segment,
\* unless the version is the default one.
JoinedPath(v, r) ==
    LET rooted == IF r # <<>> /\ r[1] = "/" THEN r ELSE <<"/">> \o r
    IN IF v = FPT THEN rooted ELSE <<"/", v>> \o rooted

\* The versioned paths page i resolves to, were it a source of redirects.
PathsOf(i) ==
    IF ~pages[i].redirect_from.some THEN {}
    ELSE {JoinedPath(pages[i].applicableVersions[v], pages[i].redirect_from.val[r]) :
            v \in 1..Len(pages[i].applicableVersions),
            r \in 1..Len(pages[i].redirect_from.val)}

\* The files the failure message lists under path.
FilesListed(path) ==
    UNION {{message["redirect_from"][k].files[n] :
              n \in 1..Len(message["redirect_from"][k].files)} :
           k \in {k \in 1..Len(message["redirect_from"]) :
                    message["redirect_from"][k].path = path}}

SameEntryOverlap(i, j, r) ==
    /\ i # j
    /\ IsEnglishSource(i) /\ IsEnglishSource(j)
    /\ \E a \in 1..Len(pages[i].redirect_from.val) : pages[i].redirect_from.val[a] = r
    /\ \E b \in 1..Len(pages[j].redirect_from.val) : pages[j].redirect_from.val[b] = r
    /\ \E a \in 1..Len(pages[i].applicableVersions) :
         \E b \in 1..Len(pages[j].applicableVersions) :
            pages[i].applicableVersions[a] = pages[j].applicableVersions[b]

SharedVersions(i, j) ==
    {pages[i].applicableVersions[a] : a \in 1..Len(pages[i].applicableVersions)}
    \cap {pages[j].applicableVersions[b] : b \in 1..Len(pages[j].applicableVersions)}

\* C5, as claimed: when two distinct English files both declare /dup (and
\* nothing else) and their versions overlap, exactly one duplicate path is
\* reported, and it names both files.
C5_ExactlyOneDuplicate ==
    (/\ RedirectRan
     /\ Len(pages) = 2
     /\ pages[1].redirect_from = Some(<<DUP>>)
     /\ pages[2].redirect_from = Some(<<DUP>>)
     /\ SameEntryOverlap(1, 2, DUP))
    => /\ Len(duplicates) = 1
       /\ FilesListed(duplicates[1]) = {pages[1].fullPath, pages[2].fullPath}

\* C5, amended: when two distinct English files declare the same redirect
\* entry and their versions overlap, the test fails and reports, for every
\* shared version, the entry's path under that version, once, naming both
\* files: as many duplicate paths as shared versions, at least.
C5_OneDuplicatePerSharedVersion ==
    RedirectRan =>
        \A i, j \in 1..Len(pages) :
            \A r \in (IF pages[i].redirect_from.some
                      THEN {pages[i].redirect_from.val[a] :
                              a \in 1..Len(pages[i].redirect_from.val)}
                      ELSE {}) :
                SameEntryOverlap(i, j, r) =>
                    /\ verdict["redirect_from"] = "fail"
                    /\ Len(duplicates) >= Cardinality(SharedVersions(i, j))
                    /\ Len(message["redirect_from"]) = Len(duplicates)
                    /\ \A v \in SharedVersions(i, j) :
                          /\ Cardinality({k \in 1..Len(duplicates) :
                                            duplicates[k] = JoinedPath(v, r)}) = 1
                          /\ {pages[i].fullPath, pages[j].fullPath}
                                \subseteq FilesListed(JoinedPath(v, r))

\* The test ran on two English files that declare /dup and share two versions:
\* two duplicate paths are reported.
C5_Witness ==
    /\ RedirectRan
    /\ Len(pages) = 2
    /\ SameEntryOverlap(1, 2, DUP)
    /\ Cardinality(SharedVersions(1, 2)) = 2
    /\ Len(duplicates) = 2

\* C6: the expansion holds, for every English page with redirects, one
\* {path, file} pair per pair of a redirect entry and a version, the path
\* being "/", the version and the entry joined with the default version's
\* segment removed and the file the page's own, and nothing else; the Map
\* lists the file under each such path. /old-path under the versions 3.8 and
\* 3.9 yields /enterprise-server@3.8/old-path and
\* /enterprise-server@3.9/old-path.
C6_OnePathPerPair ==
    RedirectRan =>
        /\ \A i \in 1..Len(pages) :
              LET mine == {k \in 1..Len(versionedRedirects) :
                             versionedRedirects[k].file = pages[i].fullPath}
              IN IF IsEnglishSource(i)
                 THEN /\ Cardinality(mine) = Len(pages[i].redirect_from.val)
                                             * Len(pages[i].applicableVersions)
                      /\ {versionedRedirects[k].path : k \in mine} = PathsOf(i)
                      /\ \A path \in PathsOf(i) :
                            \E k \in 1..Len(redirectToFiles) :
                               /\ redirectToFiles[k].path = path
                               /\ \E n \in 1..Len(redirectToFiles[k].files) :
                                     redirectToFiles[k].files[n] = pages[i].fullPath
                      /\ (/\ pages[i].redirect_from.val = <<<<"/", "old-path">>>>
                          /\ pages[i].applicableVersions = <<GHES38, GHES39>>)
                         => {versionedRedirects[k].path : k \in mine}
                              = {<<"/", "enterprise-server@3.8", "/", "old-path">>,
                                 <<"/", "enterprise-server@3.9", "/", "old-path">>}
                 ELSE mine = {}
        /\ \A k \in 1..Len(versionedRedirects) :
              \E i \in 1..Len(pages) : versionedRedirects[k].file = pages[i].fullPath

\* The test ran on a page that redirects /old-path under 3.8 and 3.9, beside a
\* page under the default version.
C6_Witness ==
    /\ RedirectRan
    /\ \E i \in 1..Len(pages) :
          /\ IsEnglishSource(i)
          /\ pages[i].redirect_from.val = <<<<"/", "old-path">>>>
          /\ pages[i].applicableVersions = <<GHES38, GHES39>>
          /\ [path |-> <<"/", GHES39, "/", "old-path">>, file |-> pages[i].fullPath]
                \in {versionedRedirects[k] : k \in 1..Len(versionedRedirects)}
    /\ \E k \in 1..Len(versionedRedirects) : versionedRedirects[k].path = DUP

\* ---- what the claims on the other checks speak of

\* The pages of the suite's collection whose permalinks are missing or empty.
BrokenFiles ==
    {pages[i].fullPath : i \in {i \in 1..Len(pages) :
        ~pages[i].permalinks.some \/ pages[i].permalinks.val = <<>>}}

\* The pages whose languageCode is not registered.
UnknownLanguageFiles ==
    {pages[i].fullPath : i \in {i \in 1..Len(pages) :
        pages[i].languageCode \notin languageCodes}}

\* The English files that share a versioned redirect path with another file.
CollidingFiles(path) ==
    {pages[i].fullPath : i \in {i \in 1..Len(pages) :
        /\ IsEnglishSource(i) /\ path \in PathsOf(i)
        /\ \E j \in 1..Len(pages) :
              /\ pages[j].fullPath # pages[i].fullPath
              /\ IsEnglishSource(j) /\ path \in PathsOf(j)}}

\* The permalinks check and the redirect check fail exactly when the complete
\* collection holds an offender, and then name every offending file.
PermalinksAndRedirectsNameOffenders ==
    /\ verdict["permalinks"] # "pending" =>
          /\ verdict["permalinks"] = "fail" <=> BrokenFiles # {}
          /\ {message["permalinks"][k] : k \in 1..Len(message["permalinks"])}
                = BrokenFiles
    /\ RedirectRan =>
          /\ verdict["redirect_from"] = "fail"
                <=> \E i \in 1..Len(pages) : \E path \in PathsOf(i) :
                       CollidingFiles(path) # {}
          /\ \A i \in 1..Len(pages) : \A path \in PathsOf(i) :
                CollidingFiles(path) # {} => FilesListed(path) = CollidingFiles(path)

\* C7, as claimed: each of the three checks, when it fails, names every
\* offending file; the language check too names every page whose languageCode
\* is not registered.
C7_EveryCheckNamesOffenders ==
    /\ PermalinksAndRedirectsNameOffenders
    /\ verdict["languageCode"] # "pending" =>
          /\ verdict["languageCode"] = "fail" <=> UnknownLanguageFiles # {}
          /\ UnknownLanguageFiles
                \subseteq {message["languageCode"][k] :
                             k \in 1..Len(message["languageCode"])}

\* C7, amended: the permalinks check and the redirect check run over the
\* complete collection and, failing, name every offending file; the language
\* check runs over the complete collection and fails exactly when a page's
\* languageCode is not registered, with a failure that names no file.
C7_TwoChecksNameOffenders ==
    /\ PermalinksAndRedirectsNameOffenders
    /\ verdict["languageCode"] # "pending" =>
          /\ verdict["languageCode"] = "fail" <=> UnknownLanguageFiles # {}
          /\ message["languageCode"] = <<>>

\* The three checks failed on a collection with two pages without permalinks,
\* two files on one redirect path and a page of an unknown language.
C7_Witness ==
    /\ verdict["permalinks"] = "fail"
    /\ verdict["redirect_from"] = "fail"
    /\ verdict["languageCode"] = "fail"
    /\ Cardinality(BrokenFiles) = 2
    /\ Len(message["permalinks"]) = 2
    /\ Cardinality(FilesListed(duplicates[1])) = 2

\* C8: the filename check passes exactly when every English page without the
\* override has a filename equal to the slug of its title or the slug of its
\* shortTitle, each slug being that of the page's own text, whatever the
\* slugger has counted. The pages whose path contains index.md, which the
\* check ignores as tables of contents, are left out, so that no failure of
\* this statement owes anything to them.
C8_PassIffFilenamesMatch ==
    verdict["filename"] # "pending" =>
        (verdict["filename"] = "pass"
         <=> \A i \in 1..Len(pages) :
                (pages[i].languageCode = "en"
                 /\ ~Includes(pages[i].relativePath, IndexMd)
                 /\ ~pages[i].allowTitleToDifferFromFilename)
                => \/ BaseNameNoMd(pages[i].relativePath) = SlugOf(Decode(pages[i].title))
                   \/ BaseNameNoMd(pages[i].relativePath)
                        = SlugOf(Decode(pages[i].shortTitle)))

\* The text holds "{{" or "{%".
HoldsTemplateSyntax(text) ==
    \E k \in 1..(Len(text) - 1) :
        SubSeq(text, k, k + 1) \in {<<"{", "{">>, <<"{", "%">>}

\* C9: when the template check ends, it has parsed exactly the pages whose raw
\* text holds template syntax, each once; it has recorded, for every page
\* whose parse failed, that page's file and the error's message, and nothing
\* else; and it passes exactly when no parse failed.
C9_ParsesAllRecordsFailures ==
    verdict["liquid"] # "pending" =>
        LET templated == {i \in 1..Len(pages) : HoldsTemplateSyntax(pages[i].raw)}
            failed == {i \in templated : LiquidParseError(pages[i].raw).some}
        IN /\ {liquidParsed[k] : k \in 1..Len(liquidParsed)}
                = {pages[i].fullPath : i \in templated}
           /\ Len(liquidParsed) = Cardinality(templated)
           /\ {liquidErrors[k] : k \in 1..Len(liquidErrors)}
                = {[filename |-> pages[i].fullPath,
                    error |-> LiquidParseError(pages[i].raw).val] : i \in failed}
           /\ Len(liquidErrors) = Cardinality(failed)
           /\ message["liquid"] = liquidErrors
           /\ verdict["liquid"] = "pass" <=> failed = {}

\* The check ended on three pages: the first failed to parse, the second holds
\* no template syntax, the third failed to parse and is recorded.
C9_Witness ==
    /\ verdict["liquid"] = "fail"
    /\ Len(pages) = 3
    /\ liquidParsed = <<pages[1].fullPath, pages[3].fullPath>>
    /\ Len(liquidErrors) = 2
    /\ liquidErrors[1].error = "output not closed"
    /\ liquidErrors[2] = [filename |-> pages[3].fullPath, error |-> "tag not closed"]

\* C10: every step of a check of the suite is taken with the beforeAll load
\* resolved and `pages` the loaded collection, and leaves both as they are;
\* findIndexablePages filters, and returns, only with its own load resolved;
\* the redirect aggregation builds its Map from empty to complete within the
\* one step that ends the redirect test.
C10_ReadAfterLoad ==
    [][/\ (\/ verdict' # verdict
           \/ message' # message
           \/ liquidIdx' # liquidIdx
           \/ liquidErrors' # liquidErrors
           \/ versionedRedirects' # versionedRedirects
           \/ redirectToFiles' # redirectToFiles)
          => /\ suiteLoad = "resolved"
             /\ pages = corpus
             /\ pages' = pages
             /\ corpus' = corpus
       /\ (\/ scrapePc' = "returned"
           \/ allPages' # allPages
           \/ indexablePages' # indexablePages)
          => /\ scrapeLoad = "resolved"
             /\ allPages' = corpus
             /\ corpus' = corpus
       /\ (redirectToFiles' # redirectToFiles \/ versionedRedirects' # versionedRedirects)
          => /\ redirectToFiles = <<>>
             /\ versionedRedirects = <<>>
             /\ verdict["redirect_from"] = "pending"
             /\ verdict'["redirect_from"] # "pending"
      ]_vars

\* Every check of the suite has run on a collection of two pages, and
\* findIndexablePages has returned.
C10_Witness ==
    /\ \A t \in TestNames : verdict[t] # "pending"
    /\ scrapePc = "returned"
    /\ Len(pages) = 2
    /\ redirectToFiles # <<>>

=============================================================================
